---- MODULE Spec2Model ----
(***************************************************************************)
(* Model of the RFID video kiosk (src/main.py): the main loop of main(),   *)
(* the reader thread (rfid_reader_thread_func / RfidVideoHandler) and the  *)
(* soundtrack fade controller (start_soundtrack_for_video,                 *)
(* manage_soundtrack_volume, stop_soundtrack_immediately).                 *)
(*                                                                         *)
(* One main-loop iteration is three steps, in the order of the code:       *)
(*   ProcessEvents  section 1 (lines 397-415)                              *)
(*   LoadStep       section 2 (lines 418-494)                              *)
(*   ReadStep       sections 3 and 4 (lines 497-545)                       *)
(* The reader thread and the audio channel run between those steps.        *)
(*                                                                         *)
(* Times are exact rationals kept as integer pairs; the configured fade    *)
(* duration is kept in tenths of a second.                                 *)
(***************************************************************************)
EXTENDS Integers, Sequences, FiniteSets, TLC

\* ------------------------------------------------------------ bounds
MaxQueue == 2
MaxFrames == 3

\* ------------------------------------------------------------ constants
\* active_tag_id = None (line 382); tag ids are positive.
None == 0
\* The channel as the code observes it: busy is
\* "soundtrack_channel and soundtrack_channel.get_busy()" (lines 259, 280, 328),
\* vol the volume of the sound it plays as a fraction of
\* TARGET_SOUNDTRACK_VOLUME.  Silent is soundtrack_channel = None (line 133) or
\* a channel that plays nothing; the next play sets its volume anew (line 268).
Silent == [busy |-> FALSE, vol |-> <<0, 1>>]
NoPath == ""
IdlePath == "media/idle.mp4"
PathA == "media/a.mp4"
PathB == "media/b.mp4"
TagIds == {1, 2, 3}
NoEvent == <<"NONE", 0>>
NoFrame == [path |-> NoPath, pos |-> 0, count |-> 0, alpha |-> <<0, 1>>,
            audio_reset |-> FALSE]
InitialFps == 30
DefaultFps == 25

\* The tag maps the configuration can produce (valid_tag_video_map after the
\* existence check): two tags with their own videos, two tags sharing one
\* video file, and a tag whose video file is the idle video file.
TagMaps ==
  { (1 :> PathA) @@ (2 :> PathB),
    (1 :> PathA) @@ (2 :> PathA),
    (1 :> PathA) @@ (2 :> IdlePath) }

\* FadeDurationSeconds of config.ini, in tenths of a second (default 1.5 s).
FadeChoices == {0, 15}

\* The card values the reader reports with a bad checksum or as invalid data;
\* main() only logs the value of a TAG_INVALID event.
InvalidIds == {1}

\* The media folder: what cv2 reports for each file when it opens, as
\* [CAP_PROP_FPS (0 when it cannot be detected), whether width and height are
\* positive, CAP_PROP_FRAME_COUNT], and frames, the number of frames cap.read()
\* delivers before the end of the stream.  The reported frame count of the
\* second content video may be 0 (unknown) or fall short of its frames.  The idle video's frame rate is not
\* detected, the first content video runs at 2 fps and the second at 1 fps,
\* and the second content video may report unusable dimensions.
VideoMetas(path) ==
  IF path = IdlePath
  THEN {[fps |-> 0, dims_ok |-> TRUE, total |-> MaxFrames, frames |-> MaxFrames]}
  ELSE IF path = PathA
  THEN {[fps |-> 2, dims_ok |-> TRUE, total |-> MaxFrames, frames |-> MaxFrames]}
  ELSE {[fps |-> 1, dims_ok |-> ok, total |-> MaxFrames, frames |-> MaxFrames] :
          ok \in BOOLEAN}
       \cup {[fps |-> 1, dims_ok |-> TRUE, total |-> t, frames |-> MaxFrames] :
                t \in {0, 1}}

VARIABLES
  \* configuration, fixed at startup
  valid_tag_video_map, FADE_DURATION_SECONDS, RDM6300_IMPORTED, ALLOW_NO_RFID,
  mixer_ok,
  \* reader thread and the queue
  rfid_thread, rfid_event_queue, stop_rfid_thread,
  \* main()
  pc, rfid_active, event, cap, cap_pos, cap_total, open_handles,
  active_tag_id, current_video_path_playing, target_video_path, target_is_idle,
  fps, fade_in_frames, current_playback_frame_count,
  previous_video_was_content,
  \* bookkeeping: whether this iteration's load section ran, the frame last
  \* shown of the loaded segment (audio_reset: its update found the channel
  \* stopped and reset the fade state, the case logged at lines 281-283), and how the segment before it ended (kept
  \* until a frame of the next segment has been shown)
  load_result, rendered, prev_end,
  \* the display window (cv2.namedWindow, cv2.destroyAllWindows)
  window_open,
  \* audio
  soundtrack_channel, audio_fade_state, current_video_duration_sec

cfgVars == <<valid_tag_video_map, FADE_DURATION_SECONDS, RDM6300_IMPORTED,
             ALLOW_NO_RFID, mixer_ok>>
readerVars == <<rfid_thread, rfid_event_queue, stop_rfid_thread>>
mediaVars == <<cap, cap_pos, cap_total, open_handles, active_tag_id, current_video_path_playing,
               target_video_path, target_is_idle, fps, fade_in_frames,
               current_playback_frame_count, previous_video_was_content>>
playVars == <<mediaVars, window_open>>
iterVars == <<event, load_result, rendered, prev_end>>
audioVars == <<soundtrack_channel, audio_fade_state, current_video_duration_sec>>
vars == <<cfgVars, readerVars, pc, rfid_active, playVars, iterVars, audioVars>>

\* ------------------------------------------------------------ arithmetic
RECURSIVE Gcd(_, _)
Gcd(a, b) == IF b = 0 THEN a ELSE Gcd(b, a % b)

\* The rational n/d (n >= 0, d > 0) in lowest terms.
Frac(n, d) == LET g == Gcd(n, d) IN <<n \div g, d \div g>>
One == <<1, 1>>
Zero == <<0, 1>>
DivError == <<0, 0>>
Less(p, q) == p[1] * q[2] < q[1] * p[2]

\* ------------------------------------------------------------ pure parts of main()

\* Decide with an unmapped tag sending the kiosk back to idle.
Decide_UnmappedToIdle(ev, active, path, idle) ==
  IF ev[1] = "TAG_INSERTED"
  THEN IF ev[2] # active
       THEN IF ev[2] \in DOMAIN valid_tag_video_map
            THEN [path |-> valid_tag_video_map[ev[2]], idle |-> FALSE]
            ELSE [path |-> IdlePath, idle |-> TRUE]
       ELSE [path |-> path, idle |-> idle]
  ELSE [path |-> path, idle |-> idle]

\* Decide without the test of the event type.
Decide_AnyEventType(ev, active, path, idle) ==
  IF ev[2] # active /\ ev[2] \in DOMAIN valid_tag_video_map
  THEN [path |-> valid_tag_video_map[ev[2]], idle |-> FALSE]
  ELSE [path |-> path, idle |-> idle]

\* Lines 400-413: the target after one dequeued event.
Decide(ev, active, path, idle) ==
  IF ev[1] = "TAG_INSERTED"
  THEN IF ev[2] # active
       THEN IF ev[2] \in DOMAIN valid_tag_video_map
            THEN [path |-> valid_tag_video_map[ev[2]], idle |-> FALSE]
            ELSE [path |-> path, idle |-> idle]
       ELSE [path |-> path, idle |-> idle]
  ELSE [path |-> path, idle |-> idle]

\* Release leaving the handle open.
Release_Leaks(c, n) == n

\* cap.release() (lines 420, 502, 561): the number of open video handles after
\* releasing capture c; releasing a capture that is not open does nothing.
Release(c, n) == IF c = "opened" THEN n - 1 ELSE n

\* Lines 419-420: "if cap: cap.release()" ahead of the open.
ReleasePrevious == IF cap # "None" THEN Release(cap, open_handles) ELSE open_handles

\* NeedsLoad putting the load off while further events are queued.
NeedsLoad_DefersWhilePending ==
  /\ current_video_path_playing # target_video_path \/ cap # "opened"
  /\ rfid_event_queue = <<>>

\* NeedsLoad without the test of the capture.
NeedsLoad_PathOnly ==
  current_video_path_playing # target_video_path

\* NeedsLoad reloading on every inserted tag.
NeedsLoad_OnInsert ==
  \/ current_video_path_playing # target_video_path
  \/ cap # "opened"
  \/ event[1] = "TAG_INSERTED"

\* NeedsLoad reloading in every iteration.
NeedsLoad_Always == TRUE

\* Line 418: the condition under which the load section runs.
NeedsLoad ==
  current_video_path_playing # target_video_path \/ cap # "opened"

\* Lines 430-433: previous_video_was_content after a failed open.
FailPrevWasContent ==
  current_video_path_playing # IdlePath /\ current_video_path_playing # NoPath

\* get_video_properties passing on a frame rate of 0.
get_video_properties_NoDefault(m) ==
  [fps |-> m.fps, dims_ok |-> m.dims_ok, total |-> m.total]

\* Lines 239-247, for a capture that opened.
get_video_properties(m) ==
  [fps |-> IF m.fps = 0 THEN DefaultFps ELSE m.fps,
   dims_ok |-> m.dims_ok,
   total |-> m.total]

\* FadeInFrames computed from the frame rate of the video played before.
FadeInFrames_FromPreviousFps(new_fps) ==
  (FADE_DURATION_SECONDS * fps) \div 10

\* Lines 446-447: int(FADE_DURATION_SECONDS * effective_fps_for_fade).
FadeInFrames(new_fps) ==
  LET effective_fps_for_fade == IF new_fps > 0 THEN new_fps ELSE fps
  IN (FADE_DURATION_SECONDS * effective_fps_for_fade) \div 10

\* Line 449.
IsLoadingIdle == target_video_path = IdlePath

\* InitialFrameCount fading a content video in only when it follows idle.
InitialFrameCount_ContentAfterContent(is_idle, prev_content, fif) ==
  IF is_idle
  THEN IF prev_content THEN 0 ELSE fif + 1
  ELSE IF prev_content THEN fif + 1 ELSE 0

\* InitialFrameCount fading the idle video in on every load.
InitialFrameCount_IdleAlwaysFades(is_idle, prev_content, fif) == 0

\* Lines 451-461: the frame counter a successful load starts the segment with.
InitialFrameCount(is_idle, prev_content, fif) ==
  IF is_idle
  THEN IF prev_content THEN 0 ELSE fif + 1
  ELSE 0

\* Lines 458 and 462.
LoadPrevWasContent(is_idle) == ~is_idle

\* Lines 472-477: the first tag of the map whose video is the path.
FoundTagId(path) ==
  LET hits == {t \in DOMAIN valid_tag_video_map : valid_tag_video_map[t] = path}
  IN IF hits = {} THEN None
     ELSE CHOOSE t \in hits : \A u \in hits : t <= u

\* EndPrevWasContent without the test of active_tag_id, either way.
EndPrevWasContent_Always == TRUE
EndPrevWasContent_Never == FALSE

\* EndPrevWasContent taken from the soundtrack instead of the active tag.
EndPrevWasContent_FromAudio == audio_fade_state # "NONE"

\* Lines 507-511: previous_video_was_content after a read that gave no frame.
EndPrevWasContent == active_tag_id # None

\* Alpha without the threshold test and without the clamp.
Alpha_Unclamped(count, fif) ==
  IF fif = 0 THEN DivError ELSE Frac(count, fif)

\* Lines 528-533: the blend weight of the frame; a frame past the threshold is
\* shown unblended (weight 1).
Alpha(count, fif) ==
  IF count <= fif
  THEN IF fif = 0 THEN DivError
       ELSE IF count >= fif THEN One ELSE Frac(count, fif)
  ELSE One

\* ------------------------------------------------------------ audio

\* Lines 326-331.
stop_soundtrack_immediately(ch) ==
  [ch |-> IF mixer_ok /\ ch.busy THEN Silent ELSE ch,
   state |-> "NONE"]

\* start_soundtrack_for_video leaving the new instance at the target volume.
start_soundtrack_for_video_FullVolume(video_total_frames, video_fps, play_ok, ch, dur) ==
  IF ~mixer_ok
  THEN [ch |-> ch, state |-> "NONE", dur |-> dur]
  ELSE LET d == IF video_fps > 0 THEN <<video_total_frames, video_fps>> ELSE Zero
       IN IF play_ok
          THEN [ch |-> [busy |-> TRUE, vol |-> One], state |-> "FADE_IN", dur |-> d]
          ELSE [ch |-> Silent, state |-> "NONE", dur |-> d]

\* Lines 249-274; play_ok is whether soundtrack.play() returned a channel.
start_soundtrack_for_video(video_total_frames, video_fps, play_ok, ch, dur) ==
  IF ~mixer_ok
  THEN [ch |-> ch, state |-> "NONE", dur |-> dur]
  ELSE LET d == IF video_fps > 0 THEN <<video_total_frames, video_fps>> ELSE Zero
       IN IF play_ok
          THEN [ch |-> [busy |-> TRUE, vol |-> Zero], state |-> "FADE_IN", dur |-> d]
          ELSE [ch |-> Silent, state |-> "NONE", dur |-> d]

\* FadeInVolume running from the target volume down.
FadeInVolume_Inverted(T, FD) == IF T < FD THEN Frac(FD - T, FD) ELSE One

\* Lines 288-292: the volume written in FADE_IN at elapsed time T with fade FD.
FadeInVolume(T, FD) == IF T < FD THEN Frac(T, FD) ELSE One

\* FadeOutVolume without the branch for a fade-out that has run its time.
FadeOutVolume_NoFloor(tin, FD, v) ==
  IF tin < 0
  THEN IF Less(v, One) THEN One ELSE v
  ELSE Frac(FD - tin, FD)

\* Lines 311-322: the volume in FADE_OUT, tin into the fade-out period, v the
\* volume of the channel.
FadeOutVolume(tin, FD, v) ==
  IF tin < 0
  THEN IF Less(v, One) THEN One ELSE v
  ELSE IF tin < FD THEN Frac(FD - tin, FD)
  ELSE Zero

\* FadeOutStarts at the end of the video instead of a fade duration before it.
FadeOutStarts_AtEnd(s, T, FD, D) == s = "PLAYING" /\ T >= D /\ D > 0

\* Lines 297-299: the fade-out starts; D is the scaled duration, positive
\* exactly when current_video_duration_sec is.
FadeOutStarts(s, T, FD, D) == s = "PLAYING" /\ T >= D - FD /\ D > 0

\* ChannelPlaying without asking the channel.
ChannelPlaying_IgnoresBusy(ch) == mixer_ok

\* Line 280: pygame_mixer_initialized and soundtrack_channel and
\* soundtrack_channel.get_busy().
ChannelPlaying(ch) == mixer_ok /\ ch.busy

\* manage_soundtrack_volume resetting the state once the fade-out is over.
manage_soundtrack_volume_ResetsAfterFade(count, fps_now, ch, state, dur) ==
  IF ~ChannelPlaying(ch)
  THEN [ch |-> ch, state |-> "NONE"]
  ELSE
    LET T  == 10 * count * dur[2]
        FD == FADE_DURATION_SECONDS * fps_now * dur[2]
        D  == 10 * dur[1] * fps_now
        s1 == IF state = "FADE_IN" /\ ~(T < FD) THEN "PLAYING" ELSE state
        v1 == IF state = "FADE_IN" THEN FadeInVolume(T, FD) ELSE ch.vol
        fade_out_start == D - FD
        s2 == IF FadeOutStarts(s1, T, FD, D) THEN "FADE_OUT" ELSE s1
        tin == T - fade_out_start
        v2 == IF s2 = "FADE_OUT" THEN FadeOutVolume(tin, FD, v1) ELSE v1
        s3 == IF s2 = "FADE_OUT" /\ tin >= FD THEN "NONE" ELSE s2
    IN [ch |-> [ch EXCEPT !.vol = v2], state |-> s3]

\* manage_soundtrack_volume testing the start of the fade-out before the end
\* of the fade-in.
manage_soundtrack_volume_FadeOutCheckedFirst(count, fps_now, ch, state, dur) ==
  IF ~ChannelPlaying(ch)
  THEN [ch |-> ch, state |-> "NONE"]
  ELSE
    LET T  == 10 * count * dur[2]
        FD == FADE_DURATION_SECONDS * fps_now * dur[2]
        D  == 10 * dur[1] * fps_now
        fade_out_start == D - FD
        s1 == IF FadeOutStarts(state, T, FD, D) THEN "FADE_OUT" ELSE state
        s2 == IF s1 = "FADE_IN" /\ ~(T < FD) THEN "PLAYING" ELSE s1
        v1 == IF s1 = "FADE_IN" THEN FadeInVolume(T, FD) ELSE ch.vol
        tin == T - fade_out_start
        v2 == IF s1 = "FADE_OUT" THEN FadeOutVolume(tin, FD, v1) ELSE v1
    IN [ch |-> [ch EXCEPT !.vol = v2], state |-> s2]

\* Lines 276-324.  elapsed = count / fps_now, fade = FADE_DURATION_SECONDS / 10,
\* duration = dur[1] / dur[2]; all three are scaled by 10 * fps_now * dur[2].
\* Volumes are fractions of TARGET_SOUNDTRACK_VOLUME.
manage_soundtrack_volume(count, fps_now, ch, state, dur) ==
  IF ~ChannelPlaying(ch)
  THEN [ch |-> ch, state |-> "NONE"]
  ELSE
    LET T  == 10 * count * dur[2]
        FD == FADE_DURATION_SECONDS * fps_now * dur[2]
        D  == 10 * dur[1] * fps_now
        s1 == IF state = "FADE_IN" /\ ~(T < FD) THEN "PLAYING" ELSE state
        v1 == IF state = "FADE_IN" THEN FadeInVolume(T, FD) ELSE ch.vol
        fade_out_start == D - FD
        s2 == IF FadeOutStarts(s1, T, FD, D) THEN "FADE_OUT" ELSE s1
        tin == T - fade_out_start
        v2 == IF s2 = "FADE_OUT" THEN FadeOutVolume(tin, FD, v1) ELSE v1
    IN [ch |-> [ch EXCEPT !.vol = v2], state |-> s2]

\* ------------------------------------------------------------ initial state

\* The state at the entry of main() (module level, lines 104-164, and the
\* locals of lines 355-391).
Init ==
  /\ valid_tag_video_map \in TagMaps
  /\ FADE_DURATION_SECONDS \in FadeChoices
  /\ RDM6300_IMPORTED \in BOOLEAN
  /\ ALLOW_NO_RFID \in BOOLEAN
  /\ mixer_ok \in BOOLEAN
  /\ rfid_thread = "unstarted"
  /\ rfid_event_queue = <<>>
  /\ stop_rfid_thread = FALSE
  /\ pc = "start"
  /\ rfid_active = FALSE
  /\ event = NoEvent
  /\ cap = "None"
  /\ cap_pos = 0
  /\ cap_total = 0
  /\ open_handles = 0
  /\ active_tag_id = None
  /\ current_video_path_playing = NoPath
  /\ target_video_path = IdlePath
  /\ target_is_idle = TRUE
  /\ fps = InitialFps
  /\ fade_in_frames = (FADE_DURATION_SECONDS * InitialFps) \div 10
  /\ current_playback_frame_count = 0
  /\ previous_video_was_content = FALSE
  /\ load_result = "pending"
  /\ rendered = NoFrame
  /\ prev_end = "start"
  /\ window_open = FALSE
  /\ soundtrack_channel = Silent
  /\ audio_fade_state = "NONE"
  /\ current_video_duration_sec = Zero

\* ------------------------------------------------------------ reader thread

\* Lines 222-231: the handler opens the serial port, or raises and the thread ends.
ReaderOpen ==
  /\ rfid_thread = "starting" /\ pc # "exited"
  /\ \E ok \in BOOLEAN : rfid_thread' = IF ok THEN "running" ELSE "failed"
  /\ UNCHANGED <<cfgVars, rfid_event_queue, stop_rfid_thread, pc, rfid_active,
                 playVars, iterVars, audioVars>>

\* card_inserted switching the target itself instead of queueing an event.
card_inserted_SetsTarget ==
  /\ rfid_thread = "running" /\ pc # "exited"
  /\ \E id \in DOMAIN valid_tag_video_map :
       /\ target_video_path' = valid_tag_video_map[id]
       /\ target_is_idle' = FALSE
  /\ UNCHANGED <<cfgVars, readerVars, pc, rfid_active, cap, cap_pos, cap_total,
                 open_handles, active_tag_id, current_video_path_playing,
                 fps, fade_in_frames, current_playback_frame_count,
                 previous_video_was_content, window_open, iterVars, audioVars>>

\* Lines 190-199.
card_inserted ==
  /\ rfid_thread = "running" /\ pc # "exited"
  /\ Len(rfid_event_queue) < MaxQueue
  /\ \/ \E id \in TagIds :
          rfid_event_queue' = Append(rfid_event_queue, <<"TAG_INSERTED", id>>)
     \/ \E id \in InvalidIds :
          rfid_event_queue' = Append(rfid_event_queue, <<"TAG_INVALID", id>>)
  /\ UNCHANGED <<cfgVars, rfid_thread, stop_rfid_thread, pc, rfid_active,
                 playVars, iterVars, audioVars>>

\* Lines 201-202: logged only.
card_removed ==
  /\ rfid_thread = "running" /\ pc # "exited"
  /\ UNCHANGED vars

\* Lines 204-206.
invalid_card ==
  /\ rfid_thread = "running" /\ pc # "exited"
  /\ Len(rfid_event_queue) < MaxQueue
  /\ \E id \in InvalidIds :
       rfid_event_queue' = Append(rfid_event_queue, <<"TAG_INVALID", id>>)
  /\ UNCHANGED <<cfgVars, rfid_thread, stop_rfid_thread, pc, rfid_active,
                 playVars, iterVars, audioVars>>

\* Lines 208-211: the heartbeat; the read loop ends once the stop event is set.
tick ==
  /\ rfid_thread = "running" /\ pc # "exited"
  /\ rfid_thread' = IF stop_rfid_thread THEN "stopped" ELSE "running"
  /\ UNCHANGED <<cfgVars, rfid_event_queue, stop_rfid_thread, pc, rfid_active,
                 playVars, iterVars, audioVars>>

\* Lines 224-235: rfid_handler.start() raises while the reader runs (the
\* serial device fails or is unplugged); the exception is logged, the handler
\* closed and the thread ends.
ReaderFails ==
  /\ rfid_thread = "running" /\ pc # "exited"
  /\ rfid_thread' = "crashed"
  /\ UNCHANGED <<cfgVars, rfid_event_queue, stop_rfid_thread, pc, rfid_active,
                 playVars, iterVars, audioVars>>

\* ------------------------------------------------------------ audio channel

\* The soundtrack plays once (loops=0) and the channel then falls silent.
ChannelFinishes ==
  /\ soundtrack_channel.busy /\ pc # "exited"
  /\ soundtrack_channel' = Silent
  /\ UNCHANGED <<cfgVars, readerVars, pc, rfid_active, playVars, iterVars,
                 audio_fade_state, current_video_duration_sec>>

\* ------------------------------------------------------------ main(): startup

\* MainStart entering the loop without the reader library whatever the flag.
MainStart_IgnoresFlag ==
  /\ pc = "start"
  /\ IF RDM6300_IMPORTED
     THEN rfid_thread' = "starting" /\ pc' = "check_alive"
     ELSE UNCHANGED rfid_thread /\ pc' = "events"
  /\ window_open' = (pc' = "events")
  /\ UNCHANGED <<cfgVars, rfid_event_queue, stop_rfid_thread, rfid_active,
                 mediaVars, iterVars, audioVars>>

\* Lines 355-379: without the reader library main() returns or goes on to
\* create the window and enter the loop.
MainStart ==
  /\ pc = "start"
  /\ IF RDM6300_IMPORTED
     THEN rfid_thread' = "starting" /\ pc' = "check_alive"
     ELSE /\ UNCHANGED rfid_thread
          /\ pc' = IF ALLOW_NO_RFID THEN "events" ELSE "exited"
  /\ window_open' = (pc' = "events")
  /\ UNCHANGED <<cfgVars, rfid_event_queue, stop_rfid_thread, rfid_active,
                 mediaVars, iterVars, audioVars>>

\* Lines 364-379: the liveness test of the thread, then the window.
MainCheckAlive ==
  /\ pc = "check_alive"
  /\ rfid_active' = (rfid_thread \notin {"failed", "crashed", "stopped"})
  /\ window_open' = TRUE
  /\ pc' = "events"
  /\ UNCHANGED <<cfgVars, readerVars, mediaVars, iterVars, audioVars>>

\* ------------------------------------------------------------ main(): the loop

\* ProcessEvents waiting for an event, as a blocking get() would.
ProcessEvents_Blocking ==
  /\ pc = "events"
  /\ rfid_active => rfid_event_queue # <<>>
  /\ IF rfid_active /\ rfid_event_queue # <<>>
     THEN LET ev == Head(rfid_event_queue)
              d  == Decide(ev, active_tag_id, target_video_path, target_is_idle)
          IN /\ event' = ev
             /\ rfid_event_queue' = Tail(rfid_event_queue)
             /\ target_video_path' = d.path
             /\ target_is_idle' = d.idle
     ELSE /\ event' = NoEvent
          /\ UNCHANGED <<rfid_event_queue, target_video_path, target_is_idle>>
  /\ load_result' = "pending"
  /\ prev_end' = IF rendered # NoFrame THEN "none" ELSE prev_end
  /\ pc' = "load"
  /\ UNCHANGED <<cfgVars, rfid_thread, stop_rfid_thread, rfid_active,
                 cap, cap_pos, cap_total, open_handles, active_tag_id,
                 current_video_path_playing, fps, fade_in_frames,
                 current_playback_frame_count, previous_video_was_content,
                 rendered, window_open, audioVars>>

\* Section 1, lines 397-415: at most one event is taken, without blocking.
ProcessEvents ==
  /\ pc = "events"
  /\ IF rfid_active /\ rfid_event_queue # <<>>
     THEN LET ev == Head(rfid_event_queue)
              d  == Decide(ev, active_tag_id, target_video_path, target_is_idle)
          IN /\ event' = ev
             /\ rfid_event_queue' = Tail(rfid_event_queue)
             /\ target_video_path' = d.path
             /\ target_is_idle' = d.idle
     ELSE /\ event' = NoEvent
          /\ UNCHANGED <<rfid_event_queue, target_video_path, target_is_idle>>
  /\ load_result' = "pending"
  /\ prev_end' = IF rendered # NoFrame THEN "none" ELSE prev_end
  /\ pc' = "load"
  /\ UNCHANGED <<cfgVars, rfid_thread, stop_rfid_thread, rfid_active,
                 cap, cap_pos, cap_total, open_handles, active_tag_id,
                 current_video_path_playing, fps, fade_in_frames,
                 current_playback_frame_count, previous_video_was_content,
                 rendered, window_open, audioVars>>

\* LoadFailed retrying the target that failed instead of falling back to idle.
LoadFailed_KeepsTarget ==
  /\ cap' = "closed"
  /\ cap_pos' = 0
  /\ cap_total' = 0
  /\ open_handles' = ReleasePrevious
  /\ previous_video_was_content' = FailPrevWasContent
  /\ active_tag_id' = None
  /\ current_video_path_playing' = NoPath
  /\ load_result' = "pending"
  /\ event' = NoEvent
  /\ rendered' = NoFrame
  /\ prev_end' = "open_failed"
  /\ pc' = "events"
  /\ UNCHANGED <<target_video_path, target_is_idle, fps, fade_in_frames,
                 current_playback_frame_count, window_open, audioVars>>

\* LoadFailed without the continue: the iteration goes on to the read section.
LoadFailed_NoContinue ==
  /\ cap' = "closed"
  /\ cap_pos' = 0
  /\ cap_total' = 0
  /\ open_handles' = ReleasePrevious
  /\ previous_video_was_content' = FailPrevWasContent
  /\ target_video_path' = IdlePath
  /\ target_is_idle' = TRUE
  /\ active_tag_id' = None
  /\ current_video_path_playing' = NoPath
  /\ load_result' = "pending"
  /\ event' = NoEvent
  /\ rendered' = NoFrame
  /\ prev_end' = "open_failed"
  /\ pc' = "read"
  /\ UNCHANGED <<fps, fade_in_frames, current_playback_frame_count, window_open,
                 audioVars>>

\* Lines 427-439: the open failed.
LoadFailed ==
  /\ cap' = "closed"
  /\ cap_pos' = 0
  /\ cap_total' = 0
  /\ open_handles' = ReleasePrevious
  /\ previous_video_was_content' = FailPrevWasContent
  /\ target_video_path' = IdlePath
  /\ target_is_idle' = TRUE
  /\ active_tag_id' = None
  /\ current_video_path_playing' = NoPath
  /\ load_result' = "pending"
  /\ event' = NoEvent
  /\ rendered' = NoFrame
  /\ prev_end' = "open_failed"
  /\ pc' = "events"
  /\ UNCHANGED <<fps, fade_in_frames, current_playback_frame_count, window_open,
                 audioVars>>

\* Lines 441-494: the open succeeded on a file reporting m; play_ok is the
\* outcome of soundtrack.play() should the soundtrack be started.
LoadOpened(m, play_ok) ==
  LET props    == get_video_properties(m)
      fif      == FadeInFrames(props.fps)
      is_idle  == IsLoadingIdle
      valid    == props.fps > 0 /\ props.dims_ok
      a1       == IF target_is_idle
                  THEN stop_soundtrack_immediately(soundtrack_channel) @@
                       [dur |-> current_video_duration_sec]
                  ELSE [ch |-> soundtrack_channel, state |-> audio_fade_state,
                        dur |-> current_video_duration_sec]
      a2       == IF valid
                  THEN IF ~target_is_idle
                       THEN start_soundtrack_for_video(props.total, props.fps, play_ok,
                                                       a1.ch, a1.dur)
                       ELSE a1
                  ELSE stop_soundtrack_immediately(a1.ch) @@ [dur |-> a1.dur]
  IN /\ cap' = "opened"
     /\ cap_pos' = 0
     /\ cap_total' = m.frames
     /\ open_handles' = ReleasePrevious + 1
     /\ fade_in_frames' = fif
     /\ current_playback_frame_count' =
          InitialFrameCount(is_idle, previous_video_was_content, fif)
     /\ previous_video_was_content' =
          IF ~valid /\ ~is_idle THEN TRUE ELSE LoadPrevWasContent(is_idle)
     /\ current_video_path_playing' = target_video_path
     /\ active_tag_id' = IF target_is_idle THEN None ELSE FoundTagId(target_video_path)
     /\ fps' = IF valid THEN props.fps ELSE fps
     /\ soundtrack_channel' = a2.ch
     /\ audio_fade_state' = a2.state
     /\ current_video_duration_sec' = a2.dur
     /\ load_result' = "opened"
     /\ rendered' = NoFrame
     /\ pc' = "read"
     /\ UNCHANGED <<target_video_path, target_is_idle, prev_end, event,
                    window_open>>

\* Section 2, lines 418-494.
LoadStep ==
  /\ pc = "load"
  /\ IF NeedsLoad
     THEN \/ LoadFailed
          \/ \E m \in VideoMetas(target_video_path), play_ok \in BOOLEAN : LoadOpened(m, play_ok)
     ELSE /\ load_result' = "skipped"
          /\ pc' = "read"
          /\ UNCHANGED <<playVars, event, rendered, prev_end, audioVars>>
  /\ UNCHANGED <<cfgVars, readerVars, rfid_active>>

\* ReadNoFrame retrying the same video after a read error.
ReadNoFrame_ErrorRetries(cause) ==
  LET a == stop_soundtrack_immediately(soundtrack_channel)
  IN /\ cap' = "closed"
     /\ cap_pos' = 0
     /\ cap_total' = 0
     /\ open_handles' = Release(cap, open_handles)
     /\ soundtrack_channel' = a.ch
     /\ audio_fade_state' = a.state
     /\ previous_video_was_content' = EndPrevWasContent
     /\ IF cause = "error"
        THEN UNCHANGED <<target_video_path, target_is_idle, active_tag_id>>
        ELSE /\ target_video_path' = IdlePath
             /\ target_is_idle' = TRUE
             /\ active_tag_id' = None
     /\ prev_end' = (IF active_tag_id # None THEN "content_" ELSE "idle_") \o cause
     /\ rendered' = NoFrame
     /\ event' = NoEvent
     /\ load_result' = "pending"
     /\ pc' = "events"
     /\ UNCHANGED <<current_video_path_playing, fps, fade_in_frames,
                    current_playback_frame_count, window_open,
                    current_video_duration_sec>>

\* ReadNoFrame leaving the target on the video that ended.
ReadNoFrame_KeepsTarget(cause) ==
  LET a == stop_soundtrack_immediately(soundtrack_channel)
  IN /\ cap' = "closed"
     /\ cap_pos' = 0
     /\ cap_total' = 0
     /\ open_handles' = Release(cap, open_handles)
     /\ soundtrack_channel' = a.ch
     /\ audio_fade_state' = a.state
     /\ previous_video_was_content' = EndPrevWasContent
     /\ prev_end' = (IF active_tag_id # None THEN "content_" ELSE "idle_") \o cause
     /\ rendered' = NoFrame
     /\ event' = NoEvent
     /\ load_result' = "pending"
     /\ pc' = "events"
     /\ UNCHANGED <<target_video_path, target_is_idle, active_tag_id,
                    current_video_path_playing, fps, fade_in_frames,
                    current_playback_frame_count, window_open,
                    current_video_duration_sec>>

\* Lines 500-517: the read gave no frame; cause is "eos" or "error".
ReadNoFrame(cause) ==
  LET a == stop_soundtrack_immediately(soundtrack_channel)
  IN /\ cap' = "closed"
     /\ cap_pos' = 0
     /\ cap_total' = 0
     /\ open_handles' = Release(cap, open_handles)
     /\ soundtrack_channel' = a.ch
     /\ audio_fade_state' = a.state
     /\ previous_video_was_content' = EndPrevWasContent
     /\ target_video_path' = IdlePath
     /\ target_is_idle' = TRUE
     /\ active_tag_id' = None
     /\ prev_end' = (IF active_tag_id # None THEN "content_" ELSE "idle_") \o cause
     /\ rendered' = NoFrame
     /\ event' = NoEvent
     /\ load_result' = "pending"
     /\ pc' = "events"
     /\ UNCHANGED <<current_video_path_playing, fps, fade_in_frames,
                    current_playback_frame_count, window_open,
                    current_video_duration_sec>>

\* EnterFinally without the stop signal to the reader thread.
EnterFinally_NoSignal ==
  /\ event' = NoEvent
  /\ load_result' = "pending"
  /\ rendered' = NoFrame
  /\ prev_end' = "start"
  /\ cap_pos' = 0
  /\ cap_total' = 0
  /\ current_video_path_playing' = NoPath
  /\ fps' = InitialFps
  /\ fade_in_frames' = (FADE_DURATION_SECONDS * InitialFps) \div 10
  /\ current_playback_frame_count' = 0
  /\ pc' = "finally"
  /\ UNCHANGED <<cfgVars, readerVars, rfid_active, cap,
                 open_handles, active_tag_id, target_video_path, target_is_idle,
                 previous_video_was_content, window_open, audioVars>>

\* Lines 551-556: leaving the loop enters the finally block, which sets the
\* stop event when the reader thread is alive and then waits in join.  Of the
\* loop's state the finally block reads only cap and the soundtrack channel;
\* the locals that describe the segment and the frame shown are dead from
\* here on and are left at their initial values.
EnterFinally ==
  /\ stop_rfid_thread' =
       (stop_rfid_thread \/ (rfid_active /\ rfid_thread \in {"starting", "running"}))
  /\ event' = NoEvent
  /\ load_result' = "pending"
  /\ rendered' = NoFrame
  /\ prev_end' = "start"
  /\ cap_pos' = 0
  /\ cap_total' = 0
  /\ current_video_path_playing' = NoPath
  /\ fps' = InitialFps
  /\ fade_in_frames' = (FADE_DURATION_SECONDS * InitialFps) \div 10
  /\ current_playback_frame_count' = 0
  /\ pc' = "finally"
  /\ UNCHANGED <<cfgVars, rfid_thread, rfid_event_queue, rfid_active, cap,
                 open_handles, active_tag_id, target_video_path, target_is_idle,
                 previous_video_was_content, window_open, audioVars>>

\* Lines 519-538: a frame was read, blended and shown.
ReadFrame ==
  LET count == current_playback_frame_count + 1
      updated == ~target_is_idle /\ fps > 0
      a == IF updated
           THEN manage_soundtrack_volume(count, fps, soundtrack_channel,
                                         audio_fade_state, current_video_duration_sec)
           ELSE [ch |-> soundtrack_channel, state |-> audio_fade_state]
  IN /\ cap_pos' = cap_pos + 1
     /\ current_playback_frame_count' = count
     /\ soundtrack_channel' = a.ch
     /\ audio_fade_state' = a.state
     /\ rendered' = [path |-> current_video_path_playing, pos |-> cap_pos + 1,
                     count |-> count, alpha |-> Alpha(count, fade_in_frames),
                     audio_reset |-> updated /\ a.state # audio_fade_state
                                             /\ ~ChannelPlaying(soundtrack_channel)]
     /\ event' = NoEvent
     /\ load_result' = "pending"
     /\ pc' = "events"
     /\ UNCHANGED <<stop_rfid_thread, cap, cap_total, open_handles, active_tag_id,
                    current_video_path_playing, target_video_path, target_is_idle, fps, fade_in_frames,
                    previous_video_was_content, prev_end, window_open,
                    current_video_duration_sec>>

\* Sections 3 and 4, lines 497-545.
ReadStep ==
  /\ pc = "read"
  /\ IF cap = "opened"
     THEN IF cap_pos >= cap_total
          THEN ReadNoFrame("eos") /\ UNCHANGED stop_rfid_thread
          ELSE \/ ReadNoFrame("error") /\ UNCHANGED stop_rfid_thread
               \/ ReadFrame
     ELSE /\ pc' = "events"
          /\ event' = NoEvent
          /\ load_result' = "pending"
          /\ UNCHANGED <<playVars, rendered, prev_end, audioVars, stop_rfid_thread>>
  /\ UNCHANGED <<cfgVars, rfid_thread, rfid_event_queue, rfid_active>>

\* Lines 538-541 and 395: the pacing wait of the frame just shown saw q or
\* Escape, running is False at the next test of the loop condition.
QuitKey ==
  /\ pc = "events" /\ rendered # NoFrame
  /\ EnterFinally

\* Lines 547-550: Ctrl+C or an unexpected exception inside the loop.
LoopException ==
  /\ pc \in {"events", "load", "read"}
  /\ EnterFinally

\* ------------------------------------------------------------ main(): shutdown

\* ReleaseCapture behind a join without a timeout: it waits until the reader
\* thread that was signalled has ended.
ReleaseCapture_JoinsWithoutTimeout ==
  /\ pc = "finally"
  /\ stop_rfid_thread => rfid_thread \notin {"starting", "running"}
  /\ cap' = IF cap = "None" THEN "None" ELSE "closed"
  /\ open_handles' = ReleasePrevious
  /\ pc' = "stop_audio"
  /\ UNCHANGED <<cfgVars, readerVars, rfid_active, cap_pos, cap_total,
                 active_tag_id, current_video_path_playing, target_video_path,
                 target_is_idle, fps, fade_in_frames,
                 current_playback_frame_count, previous_video_was_content,
                 window_open, iterVars, audioVars>>

\* Lines 556-561: join returns (the thread ended, or the 2 s timeout passed)
\* and the capture is released.
ReleaseCapture ==
  /\ pc = "finally"
  /\ cap' = IF cap = "None" THEN "None" ELSE "closed"
  /\ open_handles' = ReleasePrevious
  /\ pc' = "stop_audio"
  /\ UNCHANGED <<cfgVars, readerVars, rfid_active, cap_pos, cap_total,
                 active_tag_id, current_video_path_playing, target_video_path,
                 target_is_idle, fps, fade_in_frames,
                 current_playback_frame_count, previous_video_was_content,
                 window_open, iterVars, audioVars>>

\* Lines 563-566: the soundtrack is stopped and the mixer closed.
StopAudio ==
  /\ pc = "stop_audio"
  /\ LET a == stop_soundtrack_immediately(soundtrack_channel)
     IN soundtrack_channel' = a.ch /\ audio_fade_state' = a.state
  /\ pc' = "destroy"
  /\ UNCHANGED <<cfgVars, readerVars, rfid_active, playVars, iterVars,
                 current_video_duration_sec>>

\* Lines 568-569: the window is destroyed and main() returns: the locals that
\* were still read go out of scope and are left at their initial values.
DestroyWindows ==
  /\ pc = "destroy"
  /\ window_open' = FALSE
  /\ active_tag_id' = None
  /\ target_video_path' = IdlePath
  /\ target_is_idle' = TRUE
  /\ pc' = "exited"
  /\ UNCHANGED <<cfgVars, readerVars, rfid_active, cap, cap_pos, cap_total,
                 open_handles, current_video_path_playing,
                 fps, fade_in_frames, current_playback_frame_count,
                 previous_video_was_content, iterVars, audioVars>>

\* ------------------------------------------------------------ specification

Next ==
  \/ ReaderOpen
  \/ card_inserted
  \/ card_removed
  \/ invalid_card
  \/ tick
  \/ ReaderFails
  \/ ChannelFinishes
  \/ MainStart
  \/ MainCheckAlive
  \/ ProcessEvents
  \/ LoadStep
  \/ ReadStep
  \/ QuitKey
  \/ LoopException
  \/ ReleaseCapture
  \/ StopAudio
  \/ DestroyWindows

Spec == Init /\ [][Next]_vars

\* The main thread runs: a section of the loop that can be executed is
\* executed (the sections follow each other in one thread, lines 395-545), and
\* so are the startup steps.
FairSpec ==
  /\ Spec
  /\ WF_vars(MainStart) /\ WF_vars(MainCheckAlive)
  /\ WF_vars(ProcessEvents) /\ WF_vars(LoadStep) /\ WF_vars(ReadStep)

\* The finally block runs to its end: join has a timeout and none of the
\* other steps waits (lines 553-569).  Nothing is assumed of the reader thread.
ShutdownSpec ==
  /\ Spec
  /\ WF_vars(ReleaseCapture) /\ WF_vars(StopAudio) /\ WF_vars(DestroyWindows)

\* ------------------------------------------------------------ claims

Inserted(ev) == ev[1] = "TAG_INSERTED"
Mapped(ev) == ev[2] \in DOMAIN valid_tag_video_map
SegmentEnds == {"content_eos", "content_error", "idle_eos", "idle_error"}
\* The first frame of the loaded segment has just been shown.
FirstFrameShown == rendered # NoFrame /\ rendered.pos = 1

\* C1 as stated: an Inserted event for a mapped tag other than the active one
\* sets the target to the tag's video and the load of that video is attempted
\* in the same iteration.
C1_LoadAlwaysAttempted ==
  [][(/\ pc = "load" /\ pc' \in {"read", "events"}
      /\ Inserted(event) /\ Mapped(event) /\ event[2] # active_tag_id)
     => (/\ target_video_path = valid_tag_video_map[event[2]]
         /\ ~target_is_idle
         /\ (pc' = "events" \/ load_result' = "opened"))]_vars

\* C1 amended: the event sets the target to the tag's video with target_is_idle
\* false; the load is attempted in the same iteration exactly when that video
\* is not the open current video; and after a successful open the next frame
\* shown is the first frame of the tag's video.
C1_TargetSetAndLoadedWhenDifferent ==
  [][/\ (/\ pc = "events" /\ pc' = "load"
         /\ Inserted(event') /\ Mapped(event') /\ event'[2] # active_tag_id)
        => (/\ target_video_path' = valid_tag_video_map[event'[2]]
            /\ ~target_is_idle')
     /\ (/\ pc = "load" /\ pc' \in {"read", "events"}
         /\ Inserted(event) /\ Mapped(event) /\ event[2] # active_tag_id)
        => (/\ target_video_path = valid_tag_video_map[event[2]]
            /\ ~target_is_idle
            /\ (pc' = "events" \/ load_result' = "opened")
                 <=> (\/ current_video_path_playing # valid_tag_video_map[event[2]]
                      \/ cap # "opened")
            /\ load_result' = "opened"
                 => (/\ current_video_path_playing' = valid_tag_video_map[event[2]]
                     /\ cap' = "opened" /\ cap_pos' = 0))
     /\ (/\ pc = "read" /\ load_result = "opened" /\ rendered' # NoFrame
         /\ Inserted(event) /\ Mapped(event))
        => (/\ rendered'.path = valid_tag_video_map[event[2]]
            /\ rendered'.pos = 1)]_vars

\* C1 witness: a mapped tag was inserted and its video has just been opened.
C1_Witness ==
  /\ pc = "read" /\ load_result = "opened"
  /\ Inserted(event) /\ Mapped(event)
  /\ current_video_path_playing = valid_tag_video_map[event[2]]
  /\ ~target_is_idle /\ cap = "opened" /\ cap_pos = 0

\* C2: dequeuing Inserted(id) for an id that is no key of the tag map leaves
\* target_video_path and target_is_idle unchanged.
C2_UnmappedKeepsTarget ==
  [][(pc = "events" /\ pc' = "load" /\ Inserted(event') /\ ~Mapped(event'))
     => UNCHANGED <<target_video_path, target_is_idle>>]_vars

\* C2 witness: an unmapped tag was dequeued while a content video plays.
C2_Witness ==
  /\ pc = "load" /\ Inserted(event) /\ ~Mapped(event)
  /\ active_tag_id # None /\ cap = "opened" /\ ~target_is_idle

\* C3: dequeuing Inserted(id) while active_tag_id = id changes neither the
\* target, the current path, the frame counter nor the audio fade state, and
\* the load section of that iteration does not run.
C3_SameTagIsNoOp ==
  [][/\ (/\ pc = "events" /\ pc' = "load"
         /\ Inserted(event') /\ event'[2] = active_tag_id)
        => UNCHANGED <<target_video_path, target_is_idle,
                       current_video_path_playing, current_playback_frame_count,
                       fade_in_frames, cap, cap_pos, active_tag_id, audioVars>>
     /\ (/\ pc = "load" /\ pc' \in {"read", "events"}
         /\ Inserted(event) /\ event[2] = active_tag_id)
        => (/\ load_result' = "skipped"
            /\ UNCHANGED <<target_video_path, target_is_idle,
                           current_video_path_playing,
                           current_playback_frame_count, fade_in_frames, cap,
                           cap_pos, active_tag_id, audioVars>>)]_vars

\* C3 witness: the active tag was inserted again in the middle of its video
\* and the load section was skipped.
C3_Witness ==
  /\ pc = "read" /\ load_result = "skipped"
  /\ Inserted(event) /\ event[2] = active_tag_id
  /\ cap = "opened" /\ cap_pos >= 1

\* C4: dequeuing an Invalid(id) event changes no playback state.
C4_InvalidChangesNothing ==
  [][(pc = "events" /\ pc' = "load" /\ event'[1] = "TAG_INVALID")
     => UNCHANGED <<target_video_path, target_is_idle,
                    current_video_path_playing, active_tag_id,
                    previous_video_was_content, current_playback_frame_count,
                    fade_in_frames, cap, cap_pos, audioVars>>]_vars

\* C4 witness: an invalid card whose value is a mapped tag id was dequeued
\* while another video plays.
C4_Witness ==
  /\ pc = "load" /\ event[1] = "TAG_INVALID" /\ Mapped(event)
  /\ event[2] # active_tag_id /\ cap = "opened"
  /\ target_video_path # valid_tag_video_map[event[2]]

\* C5: after a read that gave no frame, by end of stream or by a read error,
\* of the idle video or of a content video, the target is the idle video and
\* active_tag_id is None.
C5_NoFrameRevertsToIdle ==
  (pc = "events" /\ rendered = NoFrame /\ prev_end \in SegmentEnds)
  => (/\ target_video_path = IdlePath
      /\ target_is_idle
      /\ active_tag_id = None
      /\ cap = "closed")

\* C5 witness: a content video has just ended by a read error.
C5_Witness ==
  /\ pc = "events" /\ rendered = NoFrame /\ prev_end = "content_error"
  /\ target_is_idle /\ current_video_path_playing # IdlePath

\* C6: every successful load of a content video starts the segment with the
\* frame counter at 0, and its first frame is shown with the counter at 1.
C6_ContentLoadResetsCounter ==
  /\ (pc = "read" /\ load_result = "opened"
      /\ current_video_path_playing # IdlePath)
     => current_playback_frame_count = 0
  /\ (FirstFrameShown /\ rendered.path # IdlePath)
     => (rendered.count = 1 /\ rendered.alpha = Alpha(1, fade_in_frames))

\* C6 witness: a content video has been loaded straight after another content
\* video ended.
C6_Witness ==
  /\ pc = "read" /\ load_result = "opened"
  /\ current_video_path_playing # IdlePath
  /\ prev_end \in {"content_eos", "content_error"}
  /\ current_playback_frame_count = 0

\* C7: a successful load of the idle video sets the frame counter to 0 when
\* previous_video_was_content is true at the load and to fade_in_frames + 1
\* otherwise, and a frame read with the counter past the threshold is shown
\* unblended.
C7_IdleFadesOnlyAfterContent ==
  [][/\ (pc = "load" /\ load_result' = "opened" /\ target_video_path = IdlePath)
        => (/\ previous_video_was_content
               => current_playback_frame_count' = 0
            /\ ~previous_video_was_content
               => current_playback_frame_count' = fade_in_frames' + 1)
     /\ (/\ pc = "read" /\ rendered' # NoFrame
         /\ current_playback_frame_count >= fade_in_frames)
        => rendered'.alpha = One]_vars

\* C7 witness: the idle video was reloaded after its own end, past the fade.
C7_Witness ==
  /\ pc = "read" /\ load_result = "opened"
  /\ current_video_path_playing = IdlePath
  /\ prev_end = "idle_eos"
  /\ fade_in_frames > 1
  /\ current_playback_frame_count = fade_in_frames + 1

\* C8: the first frame of an idle segment that follows startup or the idle
\* video's own end is shown with alpha 1.
C8_IdleLoopNoFade ==
  (/\ FirstFrameShown /\ rendered.path = IdlePath
   /\ prev_end \in {"start", "idle_eos", "idle_error"})
  => rendered.alpha = One

\* C8 witness: the idle video looped onto itself and showed its first frame
\* while a fade would have taken more than one frame.
C8_Witness ==
  /\ FirstFrameShown /\ rendered.path = IdlePath
  /\ prev_end = "idle_eos" /\ fade_in_frames > 1
  /\ rendered.alpha = One

\* C9 as stated: the first frame of the idle segment that follows the natural
\* end of a content video is shown with alpha 0.
C9_FirstIdleFrameAlphaZero ==
  (/\ FirstFrameShown /\ rendered.path = IdlePath
   /\ prev_end = "content_eos")
  => rendered.alpha = Zero

\* C9 amended: after the natural end of a content video the target is idle
\* and previous_video_was_content is true; the idle segment loaded next starts
\* with the frame counter at 0, and its first frame is shown with the counter
\* at 1, that is with alpha 1 / fade_in_frames (unblended when fade_in_frames
\* is below 2).
C9_IdleAfterContentFadesFromOne ==
  /\ (pc = "events" /\ rendered = NoFrame /\ prev_end = "content_eos")
     => (/\ target_video_path = IdlePath /\ target_is_idle
         /\ previous_video_was_content)
  /\ (/\ FirstFrameShown /\ rendered.path = IdlePath
      /\ prev_end = "content_eos")
     => (/\ rendered.count = 1
         /\ rendered.alpha =
              IF fade_in_frames >= 2 THEN <<1, fade_in_frames>> ELSE One)

\* C9 witness: the idle video shows its first frame, partly faded, after a
\* content video ended.
C9_Witness ==
  /\ FirstFrameShown /\ rendered.path = IdlePath
  /\ prev_end = "content_eos"
  /\ fade_in_frames >= 2
  /\ rendered.alpha = <<1, fade_in_frames>>

\* C10 as stated: a failed open sets previous_video_was_content to true when
\* the failed target is a content video, whatever was loaded before, and does
\* not set it to true when the failed target is the idle video.
C10_FailedContentMarksContent ==
  [][(pc = "load" /\ pc' = "events")
     => (/\ target_video_path # IdlePath => previous_video_was_content'
         /\ target_video_path = IdlePath
            => (previous_video_was_content' => previous_video_was_content))]_vars

\* C11: at most one video handle is open in every state: a handle is open
\* exactly when the capture is opened, none is open after a read that gave no
\* frame, and none after shutdown.
C11_AtMostOneHandle ==
  /\ open_handles \in {0, 1}
  /\ open_handles = 1 <=> cap = "opened"
  /\ (pc = "events" /\ rendered = NoFrame /\ prev_end \in SegmentEnds)
     => open_handles = 0
  /\ pc = "exited" => open_handles = 0

\* C11 witness: a video was opened in place of one that was still playing.
C11_Witness ==
  /\ pc = "read" /\ load_result = "opened" /\ prev_end = "none"
  /\ Inserted(event) /\ Mapped(event)
  /\ open_handles = 1

\* The frame counters the fade weight is examined at, for the threshold of
\* the loaded segment.
AlphaCounts == 0 .. (fade_in_frames + MaxFrames)

\* The step reads a frame and shows it.
ShowsFrame == pc = "read" /\ cap_pos' = cap_pos + 1

\* C12 as stated: for the threshold N = fade_in_frames of every loaded
\* segment, alpha(0) = 0, alpha(n) = 1 for every n >= N, and alpha is
\* non-decreasing in n.
C12_AlphaZeroAtZero ==
  pc = "read"
  => /\ Alpha(0, fade_in_frames) = Zero
     /\ \A n \in AlphaCounts : n >= fade_in_frames => Alpha(n, fade_in_frames) = One
     /\ \A n \in AlphaCounts :
          ~Less(Alpha(n + 1, fade_in_frames), Alpha(n, fade_in_frames))

\* C12 amended: alpha(0) = 0 when N >= 1 (for N = 0 the division of line 529
\* fails at n = 0, a counter the loop never blends with); alpha(n) = 1 for
\* every n >= N with n >= 1; alpha is non-decreasing over the counters it is
\* defined at; the weights of successive frames of a segment never decrease,
\* every frame is blended with a counter of at least 1, and a frame that
\* follows a frame at or past the threshold is shown with weight 1.
C12_AlphaMonotone ==
  [][/\ (pc = "read" /\ pc' = "events")
        => /\ fade_in_frames >= 1 => Alpha(0, fade_in_frames) = Zero
           /\ fade_in_frames = 0 => Alpha(0, fade_in_frames) = DivError
           /\ \A n \in AlphaCounts :
                (n >= fade_in_frames /\ n >= 1) => Alpha(n, fade_in_frames) = One
           /\ \A n \in AlphaCounts :
                (n >= 1 \/ fade_in_frames >= 1)
                => ~Less(Alpha(n + 1, fade_in_frames), Alpha(n, fade_in_frames))
     /\ ShowsFrame
        => /\ rendered'.count >= 1
           /\ rendered'.alpha # DivError
           /\ ~Less(One, rendered'.alpha)
     /\ (ShowsFrame /\ rendered # NoFrame)
        => /\ rendered'.path = rendered.path
           /\ rendered'.pos = rendered.pos + 1
           /\ rendered'.count = rendered.count + 1
           /\ ~Less(rendered'.alpha, rendered.alpha)
           /\ rendered.count >= fade_in_frames => rendered'.alpha = One]_vars

\* C12 witness: a segment faded in from counter 0 and shows a frame past its
\* threshold.
C12_Witness ==
  /\ rendered # NoFrame /\ rendered.pos >= 2
  /\ rendered.count = rendered.pos
  /\ fade_in_frames >= 1 /\ rendered.count > fade_in_frames
  /\ rendered.alpha = One

\* A volume between 0 and TARGET_SOUNDTRACK_VOLUME.
VolumeInRange(v) == v[2] > 0 /\ v[1] >= 0 /\ v[1] <= v[2]
AudioStates == {"NONE", "FADE_IN", "PLAYING", "FADE_OUT"}
\* Frame counts, frame rates and durations (frames, fps) the update is
\* examined at: durations of 0, below, equal to and above the fade duration,
\* and elapsed times up to past the end.
UpdateCounts == 1 .. (MaxFrames + 1)
UpdateFps == {1, 2, DefaultFps}
UpdateDurations == {Zero} \cup {<<t, f>> : t \in 0 .. MaxFrames, f \in {1, 2}}
UpdateVolumes == {Zero, <<1, 3>>, <<2, 3>>, One}

\* C13: every volume on the channel, written by start_soundtrack_for_video
\* or by manage_soundtrack_volume, lies between 0 and the target volume, in
\* the run and for every audio state, elapsed time, fade duration and video
\* duration the update can be called with.
C13_VolumeWithinRange ==
  /\ VolumeInRange(soundtrack_channel.vol)
  /\ pc = "start"
     => \A st \in AudioStates, n \in UpdateCounts, f \in UpdateFps,
           d \in UpdateDurations, v \in UpdateVolumes, ok \in BOOLEAN :
          /\ VolumeInRange(
               manage_soundtrack_volume(n, f, [busy |-> TRUE, vol |-> v], st, d).ch.vol)
          /\ VolumeInRange(
               start_soundtrack_for_video(d[1], d[2], ok,
                                          [busy |-> TRUE, vol |-> v], d).ch.vol)

\* C13 witness: the soundtrack of a video shorter than the fade duration is
\* fading out past the reported end of the video.
C13_Witness ==
  /\ soundtrack_channel.busy /\ audio_fade_state = "FADE_OUT"
  /\ 10 * current_video_duration_sec[1]
       < FADE_DURATION_SECONDS * current_video_duration_sec[2]
  /\ current_playback_frame_count * current_video_duration_sec[2]
       > current_video_duration_sec[1] * fps
  /\ soundtrack_channel.vol = Zero

\* C14: over the updates of one content segment, a volume written with the
\* state left at FADE_IN is not below the volume before it, and a volume
\* written in FADE_OUT after an earlier FADE_OUT update is not above it.
C14_FadeVolumesMonotone ==
  [][(ShowsFrame /\ soundtrack_channel.busy /\ soundtrack_channel'.busy)
     => /\ audio_fade_state' = "FADE_IN"
           => (/\ audio_fade_state = "FADE_IN"
               /\ ~Less(soundtrack_channel'.vol, soundtrack_channel.vol))
        /\ (audio_fade_state = "FADE_OUT")
           => (/\ audio_fade_state' = "FADE_OUT"
               /\ ~Less(soundtrack_channel.vol, soundtrack_channel'.vol))]_vars

\* C14 witness: a soundtrack that faded in and has been fading out for more
\* than one update has reached volume 0.
C14_Witness ==
  /\ soundtrack_channel.busy /\ audio_fade_state = "FADE_OUT"
  /\ FADE_DURATION_SECONDS > 0
  /\ 10 * current_video_duration_sec[1]
       >= 2 * FADE_DURATION_SECONDS * current_video_duration_sec[2]
  /\ current_playback_frame_count * current_video_duration_sec[2]
       = current_video_duration_sec[1] * fps
  /\ soundtrack_channel.vol = Zero

\* C15: an update that finds the channel not busy while the fade state is
\* FADE_IN, PLAYING or FADE_OUT sets the state to NONE and writes no volume.
C15_StoppedChannelResetsState ==
  [][(/\ ShowsFrame /\ ~target_is_idle /\ fps > 0
      /\ ~soundtrack_channel.busy
      /\ audio_fade_state \in {"FADE_IN", "PLAYING", "FADE_OUT"})
     => (/\ audio_fade_state' = "NONE"
         /\ soundtrack_channel' = soundtrack_channel
         /\ rendered'.audio_reset)]_vars

\* C15 witness: the frame just shown came with an update that found the
\* soundtrack stopped and reset the fade state.
C15_Witness ==
  /\ rendered # NoFrame /\ rendered.audio_reset
  /\ audio_fade_state = "NONE" /\ ~soundtrack_channel.busy
  /\ active_tag_id # None

\* C16 as stated: in every state in which no content video is active
\* (active_tag_id is None) the audio fade state is NONE.
C16_IdleMeansAudioNone ==
  active_tag_id = None => audio_fade_state = "NONE"

\* The step shows a frame of a content video and updates its soundtrack, the
\* channel busy before and after, the video duration positive and at least
\* the fade duration.
FadingUpdate ==
  /\ ShowsFrame /\ ~target_is_idle /\ fps > 0
  /\ soundtrack_channel.busy /\ soundtrack_channel'.busy
  /\ current_video_duration_sec[1] > 0
  /\ 10 * current_video_duration_sec[1]
       >= FADE_DURATION_SECONDS * current_video_duration_sec[2]
\* Elapsed time at that update, fade duration and video duration, all scaled
\* by 10 * fps * current_video_duration_sec[2].
ElapsedAfter == 10 * current_playback_frame_count' * current_video_duration_sec[2]
FadeScaled == FADE_DURATION_SECONDS * fps * current_video_duration_sec[2]
DurationScaled == 10 * current_video_duration_sec[1] * fps

\* The fade state after the first n updates for a fade of 1.5 s and a video
\* of 450 frames at 30 fps: fade-in over 45 frames, fade-out from frame 405.
ExampleStateAfter(n) ==
  IF n < 45 THEN "FADE_IN" ELSE IF n < 405 THEN "PLAYING" ELSE "FADE_OUT"

\* C17 as stated: with the video duration at least the fade duration, the
\* state is FADE_OUT after an update exactly when its elapsed time is at
\* least duration - fade, and the volume written at elapsed = duration is 0.
C17_FadeOutAtDurationMinusFade ==
  [][FadingUpdate
     => /\ audio_fade_state' = "FADE_OUT"
           <=> ElapsedAfter >= DurationScaled - FadeScaled
        /\ ElapsedAfter = DurationScaled => soundtrack_channel'.vol = Zero]_vars

\* C17 amended: the state is FADE_OUT after an update exactly when its
\* elapsed time is at least duration - fade and at least fade (the fade-in
\* has completed); the volume written at elapsed = duration is 0; and for a
\* fade of 1.5 s, 450 frames and 30 fps every update n takes the state expected
\* after update n - 1 to the state expected after update n (PLAYING after
\* update 404, FADE_OUT after update 405), update 405 writes the target
\* volume and update 450 writes 0.
C17_FadeOutAfterFadeIn ==
  [][/\ FadingUpdate
        => /\ audio_fade_state' = "FADE_OUT"
              <=> (/\ ElapsedAfter >= DurationScaled - FadeScaled
                   /\ ElapsedAfter >= FadeScaled)
           /\ ElapsedAfter = DurationScaled => soundtrack_channel'.vol = Zero
     /\ (pc = "start" /\ mixer_ok /\ FADE_DURATION_SECONDS = 15)
        => \A n \in 1 .. 450, v \in UpdateVolumes :
             LET r == manage_soundtrack_volume(n, 30, [busy |-> TRUE, vol |-> v],
                                               ExampleStateAfter(n - 1), <<450, 30>>)
             IN /\ r.state = ExampleStateAfter(n)
                /\ n = 405 => r.ch.vol = One
                /\ n = 450 => r.ch.vol = Zero]_vars

\* C17 witness: a video at least twice as long as the fade has been played
\* to its last frame and its soundtrack has faded out to 0.
C17_Witness ==
  /\ rendered # NoFrame /\ rendered.pos = cap_total /\ active_tag_id # None
  /\ soundtrack_channel.busy /\ audio_fade_state = "FADE_OUT"
  /\ FADE_DURATION_SECONDS > 0
  /\ 10 * current_video_duration_sec[1]
       >= 2 * FADE_DURATION_SECONDS * current_video_duration_sec[2]
  /\ current_video_duration_sec[1] = cap_total
  /\ soundtrack_channel.vol = Zero

\* C18: the event section never waits: it can run in every state the loop
\* reaches it in; the queue shrinks only there, by its head; and with the
\* queue empty, or the reader inactive, the iteration goes on to the load
\* section with no event and the queue and the target untouched.
C18_OneEventNoWait ==
  [][/\ pc = "events" => ENABLED ProcessEvents
     /\ (/\ rfid_event_queue' # rfid_event_queue
         /\ Len(rfid_event_queue') <= Len(rfid_event_queue))
        => (/\ pc = "events" /\ pc' = "load" /\ rfid_active
            /\ rfid_event_queue' = Tail(rfid_event_queue)
            /\ event' = Head(rfid_event_queue))
     /\ (/\ pc = "events" /\ pc' = "load"
         /\ (rfid_event_queue = <<>> \/ ~rfid_active))
        => (/\ event' = NoEvent
            /\ UNCHANGED <<rfid_event_queue, target_video_path,
                           target_is_idle>>)]_vars

\* C18 witness: with the reader running and nothing queued, the iteration
\* has gone on to the load section without an event.
C18_Witness ==
  /\ pc = "load" /\ event = NoEvent
  /\ rfid_active /\ rfid_thread = "running" /\ rfid_event_queue = <<>>
  /\ cap = "opened"

\* The event ev selected a video (Inserted, mapped, not the active tag) and
\* the queue holds a later Inserted event that selects another video.
SelectsVideo(ev) == Inserted(ev) /\ Mapped(ev)
LaterSelectionPending(ev) ==
  /\ rfid_active
  /\ \E i \in DOMAIN rfid_event_queue :
       /\ SelectsVideo(rfid_event_queue[i])
       /\ valid_tag_video_map[rfid_event_queue[i][2]] # valid_tag_video_map[ev[2]]

\* C19 as stated: of a burst of events queued between two frames only the
\* video selected by the last one is loaded; the video selected by an event
\* that has a later selection queued behind it is not opened.
C19_BurstCollapses ==
  [][(/\ pc = "load" /\ SelectsVideo(event) /\ event[2] # active_tag_id
      /\ LaterSelectionPending(event))
     => load_result' # "opened"]_vars

\* C19 amended: the events of a burst are handled one per iteration in queue
\* order.  The video selected by an event is the target of its iteration even
\* with a later selection queued behind it: its load is attempted when it is
\* not the open current video, the later event stays queued, and once it is
\* opened the frame shown in that iteration is its first frame.
C19_BurstHandledOneByOne ==
  [][/\ (/\ pc = "load" /\ pc' \in {"read", "events"}
         /\ SelectsVideo(event) /\ event[2] # active_tag_id
         /\ LaterSelectionPending(event))
        => (/\ target_video_path = valid_tag_video_map[event[2]]
            /\ (\/ current_video_path_playing # valid_tag_video_map[event[2]]
                \/ cap # "opened")
               => (pc' = "events" \/ load_result' = "opened")
            /\ load_result' = "opened"
               => current_video_path_playing' = valid_tag_video_map[event[2]]
            /\ rfid_event_queue' = rfid_event_queue)
     /\ (/\ ShowsFrame /\ load_result = "opened"
         /\ SelectsVideo(event) /\ LaterSelectionPending(event))
        => (/\ rendered'.path = valid_tag_video_map[event[2]]
            /\ rendered'.pos = 1
            /\ rfid_event_queue' = rfid_event_queue)]_vars

\* C19 witness: the video selected by the first event of a burst has been
\* opened while the event selecting another video is still queued.
C19_Witness ==
  /\ pc = "read" /\ load_result = "opened"
  /\ SelectsVideo(event) /\ LaterSelectionPending(event)
  /\ current_video_path_playing = valid_tag_video_map[event[2]]
  /\ cap = "opened" /\ cap_pos = 0

\* The reader is unavailable: the library is missing, or the reader thread
\* failed to open the device.
ReaderUnavailable == ~RDM6300_IMPORTED \/ rfid_thread = "failed"
InLoop == pc \in {"events", "load", "read"}

AfterFailedOpen == prev_end = "open_failed" /\ rendered = NoFrame

\* C21: a failed open of any target, content or idle, keeps the loop running:
\* the iteration ends at the loop top with the target idle, active_tag_id
\* None and the current path cleared; the iteration after a failed open
\* attempts a load again, also when the target that failed was the idle video;
\* and an Inserted event for a mapped tag dequeued after a failed open sets
\* the target to the tag's video.
C21_FailedOpenKeepsLoopRunning ==
  [][/\ (pc = "load" /\ pc' = "events")
        => /\ NeedsLoad
           /\ target_video_path' = IdlePath /\ target_is_idle'
           /\ active_tag_id' = None
           /\ current_video_path_playing' = NoPath
           /\ cap' # "opened"
           /\ NeedsLoad'
           /\ AfterFailedOpen'
     /\ (pc = "load" /\ pc' \notin {"load", "events", "read"}) => pc' = "finally"
     /\ (pc = "load" /\ AfterFailedOpen /\ pc' \in {"events", "read"})
        => /\ NeedsLoad
           /\ pc' = "events" \/ load_result' = "opened"
     /\ (pc = "events" /\ pc' = "load" /\ AfterFailedOpen /\ SelectsVideo(event'))
        => /\ target_video_path' = valid_tag_video_map[event'[2]]
           /\ ~target_is_idle']_vars

\* C21 witness: the idle video failed to open, and in the iteration after it
\* a mapped tag was inserted and its video is about to be loaded.
C21_Witness ==
  /\ pc = "load" /\ AfterFailedOpen
  /\ SelectsVideo(event)
  /\ target_video_path = valid_tag_video_map[event[2]] /\ ~target_is_idle
  /\ ~previous_video_was_content
  /\ current_video_path_playing = NoPath

\* The reader thread is alive (rfid_thread.is_alive(), line 553).
ReaderAlive == rfid_thread \in {"starting", "running"}

\* C22: every exit from the loop, by the quit key or by an exception in any
\* section of an iteration, enters the shutdown sequence, and the sequence
\* runs to the end in this order: the reader thread, when alive, is signalled
\* to stop and joined (the join returns whether or not the thread ended);
\* then the video handle is released, with the soundtrack and the window
\* untouched until then; then the soundtrack is stopped, with the window still
\* open; then the window is destroyed.
C22_ShutdownInOrder ==
  [][/\ (InLoop /\ ~InLoop')
        => /\ pc' = "finally"
           /\ stop_rfid_thread' \/ ~ReaderAlive
           /\ UNCHANGED <<cap, open_handles, audioVars, window_open>>
     /\ pc = "finally" => ENABLED ReleaseCapture
     /\ pc = "stop_audio" => ENABLED StopAudio
     /\ pc = "destroy" => ENABLED DestroyWindows
     /\ (pc = "finally" /\ pc' # pc)
        => /\ pc' = "stop_audio"
           /\ stop_rfid_thread \/ ~ReaderAlive
           /\ open_handles' = 0 /\ cap' # "opened"
           /\ UNCHANGED <<audioVars, window_open, stop_rfid_thread>>
     /\ (pc = "stop_audio" /\ pc' # pc)
        => /\ pc' = "destroy"
           /\ open_handles = 0
           /\ audio_fade_state' = "NONE" /\ ~soundtrack_channel'.busy
           /\ UNCHANGED <<cap, open_handles, window_open, stop_rfid_thread>>
     /\ (pc = "destroy" /\ pc' # pc)
        => /\ pc' = "exited"
           /\ open_handles = 0
           /\ audio_fade_state = "NONE" /\ ~soundtrack_channel.busy
           /\ window_open /\ ~window_open'
           /\ UNCHANGED <<cap, open_handles, audioVars, stop_rfid_thread>>]_vars

\* C22 witness: the loop was left while a content video played with its
\* soundtrack; the reader was signalled and is still running after the join,
\* the handle is released, the soundtrack stopped, the window still open.
C22_Witness ==
  /\ pc = "destroy"
  /\ stop_rfid_thread /\ rfid_thread = "running"
  /\ active_tag_id # None /\ cap = "closed" /\ open_handles = 0
  /\ audio_fade_state = "NONE" /\ ~soundtrack_channel.busy
  /\ window_open

\* The iteration that has just ended suspended: in the pacing wait of line
\* 538 after showing a frame, or in the guard delay of line 438 after a
\* failed open.
PacingWaited == pc = "events" /\ rendered # NoFrame
GuardDelayed == pc = "events" /\ AfterFailedOpen

\* C23 as stated: the loop suspends only where it polls for the quit key, so
\* after every suspension of the running loop a quit request made by then is
\* taken up and leads to shutdown.
C23_QuitObservedAtEverySuspension ==
  (PacingWaited \/ GuardDelayed) => ENABLED QuitKey

\* The state owned by the main loop: target, current video, active tag, the
\* content flag, the frame counters and the audio fade state.
MainOwned ==
  <<target_video_path, target_is_idle, current_video_path_playing,
    active_tag_id, previous_video_was_content, current_playback_frame_count,
    fade_in_frames, cap, cap_pos, audio_fade_state, current_video_duration_sec>>
\* A step of the main thread: every step of main() moves its position.
MainStep == pc' # pc

\* C24: the two threads share the queue and the stop signal only.  A step
\* that is not a step of main() leaves the state owned by the main loop
\* unchanged; a step of main() leaves the reader thread's own state unchanged,
\* takes events only from the head of the queue and never clears the stop
\* signal; the reader only appends to the queue; and whether the reader can
\* take a step depends on its own state, the stop signal and the queue only.
C24_QueueIsOnlySharedState ==
  [][/\ ~MainStep => UNCHANGED MainOwned
     /\ MainStep
        => /\ rfid_thread' = rfid_thread \/ (pc = "start" /\ rfid_thread' = "starting")
           /\ \/ rfid_event_queue' = rfid_event_queue
              \/ /\ rfid_event_queue # <<>>
                 /\ rfid_event_queue' = Tail(rfid_event_queue)
           /\ stop_rfid_thread => stop_rfid_thread'
     /\ (~MainStep /\ rfid_event_queue' # rfid_event_queue)
        => /\ Len(rfid_event_queue') = Len(rfid_event_queue) + 1
           /\ SubSeq(rfid_event_queue', 1, Len(rfid_event_queue)) = rfid_event_queue
           /\ UNCHANGED <<rfid_thread, stop_rfid_thread>>
     /\ (~MainStep /\ rfid_thread' # rfid_thread)
        => UNCHANGED <<rfid_event_queue, stop_rfid_thread, audioVars>>
     /\ (rfid_thread = "running" /\ pc # "exited")
        => /\ ENABLED tick /\ ENABLED card_removed
           /\ Len(rfid_event_queue) < MaxQueue
              => (ENABLED card_inserted /\ ENABLED invalid_card)]_vars

\* C24 witness: the reader queued an event while a content video plays and
\* its soundtrack fades in.
C24_Witness ==
  /\ pc = "read" /\ rfid_event_queue # <<>>
  /\ Inserted(rfid_event_queue[1]) /\ Mapped(rfid_event_queue[1])
  /\ rfid_event_queue[1][2] # active_tag_id
  /\ active_tag_id # None /\ cap_pos >= 1
  /\ audio_fade_state = "FADE_IN"
  /\ target_video_path = current_video_path_playing

\* The load section of this iteration runs: the step ends in a failed open
\* or in an opened video.
LoadAttempted ==
  pc = "load" /\ (pc' = "events" \/ (pc' = "read" /\ load_result' = "opened"))
LoadSkipped == pc = "load" /\ pc' = "read" /\ load_result' = "skipped"

\* C25 as stated: a load is performed in an iteration only if the current
\* path differs from the target path at the start of the load step.
C25_LoadOnlyWhenPathsDiffer ==
  [][LoadAttempted => current_video_path_playing # target_video_path]_vars

\* C25 amended: a load is performed exactly when the current path differs
\* from the target path or no capture is open; with the paths equal and the
\* capture open no load is performed and the capture keeps its position; a
\* load with the paths equal follows the read that ended the segment before
\* and released the capture (the idle video looping, or the tag of the video
\* that just ended inserted again).
C25_LoadWhenPathsDifferOrCaptureClosed ==
  [][/\ LoadAttempted
        <=> (/\ pc = "load" /\ pc' \in {"events", "read"}
             /\ (current_video_path_playing # target_video_path \/ cap # "opened"))
     /\ LoadSkipped
        <=> (/\ pc = "load" /\ pc' \in {"events", "read"}
             /\ current_video_path_playing = target_video_path /\ cap = "opened")
     /\ LoadSkipped => UNCHANGED <<cap, cap_pos, open_handles, mediaVars, audioVars>>
     /\ (LoadAttempted /\ current_video_path_playing = target_video_path)
        => /\ cap = "closed" /\ rendered = NoFrame
           /\ prev_end \in SegmentEnds]_vars

\* C25 witness: the idle video reached its end and has been opened again,
\* the current path and the target path being the idle path throughout.
C25_Witness ==
  /\ pc = "read" /\ load_result = "opened" /\ prev_end = "idle_eos"
  /\ current_video_path_playing = IdlePath /\ target_video_path = IdlePath
  /\ active_tag_id = None /\ cap = "opened" /\ cap_pos = 0

\* The video side of the kiosk: targets, the loaded video, the active tag,
\* the content flag, the frame counters and the capture.
VideoState ==
  <<target_video_path, target_is_idle, current_video_path_playing,
    active_tag_id, previous_video_was_content, current_playback_frame_count,
    fade_in_frames, fps, cap, cap_pos, cap_total>>
\* The video side after an open that reports m, from the video side before
\* it (no soundtrack, mixer or channel enters).
VideoAfterOpen(m) ==
  LET props == get_video_properties(m)
      valid == props.fps > 0 /\ props.dims_ok
  IN <<target_video_path, target_is_idle, target_video_path,
       IF target_is_idle THEN None ELSE FoundTagId(target_video_path),
       IF ~valid /\ ~IsLoadingIdle THEN TRUE ELSE LoadPrevWasContent(IsLoadingIdle),
       InitialFrameCount(IsLoadingIdle, previous_video_was_content,
                         FadeInFrames(props.fps)),
       FadeInFrames(props.fps),
       IF valid THEN props.fps ELSE fps,
       "opened", 0, m.frames>>
VideoAfterFailedOpen ==
  <<IdlePath, TRUE, NoPath, None, FailPrevWasContent,
    current_playback_frame_count, fade_in_frames, fps, "closed", 0, 0>>
VideoAfterNoFrame ==
  <<IdlePath, TRUE, current_video_path_playing, None, active_tag_id # None,
    current_playback_frame_count, fade_in_frames, fps, "closed", 0, 0>>
VideoAfterFrame ==
  <<target_video_path, target_is_idle, current_video_path_playing,
    active_tag_id, previous_video_was_content,
    current_playback_frame_count + 1, fade_in_frames, fps, cap, cap_pos + 1,
    cap_total>>
VideoAfterEvent(ev) ==
  LET d == Decide(ev, active_tag_id, target_video_path, target_is_idle)
  IN <<d.path, d.idle, current_video_path_playing, active_tag_id,
       previous_video_was_content, current_playback_frame_count,
       fade_in_frames, fps, cap, cap_pos, cap_total>>

\* C26: the video side evolves as a function of the video side and of the
\* tag event, the open result and the read result alone, whatever the mixer,
\* the soundtrack start and the channel do: each step of the loop takes the
\* video side to the value computed without any audio state, every outcome of
\* a load or a read is possible in every state the loop reaches the load or
\* the read section in (examined once per such state, at the step that
\* leaves the loop from it), whatever the audio state, and the alpha of a
\* frame is that of its counter; with the mixer or the soundtrack unavailable
\* the fade state stays NONE and nothing plays.
C26_VideoIndependentOfAudio ==
  [][/\ (pc = "events" /\ pc' = "load") => VideoState' = VideoAfterEvent(event')
     /\ (pc = "load" /\ pc' = "events") => VideoState' = VideoAfterFailedOpen
     /\ (pc = "load" /\ pc' = "read")
        => IF load_result' = "opened"
           THEN \E m \in VideoMetas(target_video_path) :
                  VideoState' = VideoAfterOpen(m)
           ELSE UNCHANGED VideoState
     /\ (pc = "read" /\ pc' = "events")
        => IF ShowsFrame
           THEN /\ VideoState' = VideoAfterFrame
                /\ rendered'.alpha = Alpha(current_playback_frame_count + 1,
                                           fade_in_frames)
                /\ rendered'.path = current_video_path_playing
           ELSE VideoState' = VideoAfterNoFrame
     /\ (pc = "load" /\ pc' = "finally" /\ NeedsLoad)
        => /\ ENABLED (LoadStep /\ pc' = "events")
           /\ \A m \in VideoMetas(target_video_path) :
                ENABLED (LoadStep /\ VideoState' = VideoAfterOpen(m))
     /\ (pc = "read" /\ pc' = "finally" /\ cap = "opened")
        => /\ ENABLED (ReadStep /\ ~ShowsFrame)
           /\ cap_pos < cap_total => ENABLED (ReadStep /\ ShowsFrame)
     /\ ~mixer_ok
        => /\ audio_fade_state = "NONE" /\ ~soundtrack_channel.busy
           /\ audio_fade_state' = "NONE" /\ ~soundtrack_channel'.busy]_vars

\* C26 witness: with the mixer unavailable a content video has faded in over
\* several frames, the fade state at NONE.
C26_Witness ==
  /\ ~mixer_ok /\ audio_fade_state = "NONE"
  /\ pc = "events" /\ rendered # NoFrame /\ active_tag_id # None
  /\ rendered.count >= 2 /\ fade_in_frames >= 2
  /\ rendered.alpha = Alpha(rendered.count, fade_in_frames)

\* C27 as stated: whenever a frame has been rendered, active_tag_id is None
\* exactly when the loaded video is the idle video, and otherwise it is a tag
\* whose entry in the tag map is the current path.
C27_ActiveTagIdentifiesVideo ==
  (pc = "events" /\ rendered # NoFrame)
  => /\ active_tag_id = None <=> current_video_path_playing = IdlePath
     /\ active_tag_id # None
        => /\ active_tag_id \in DOMAIN valid_tag_video_map
           /\ valid_tag_video_map[active_tag_id] = current_video_path_playing

\* The loop runs, the event of this iteration selects no video and the last
\* open did not fail.
NoSelectionAndOpens ==
  InLoop /\ ~SelectsVideo(event) /\ prev_end # "open_failed"
\* The idle video is what is loaded and shown.
OnIdleVideo ==
  /\ current_video_path_playing = IdlePath
  /\ target_video_path = IdlePath /\ target_is_idle
  /\ active_tag_id = None
  /\ rendered # NoFrame => rendered.path = IdlePath
IdleJustLoaded ==
  pc = "read" /\ load_result = "opened" /\ current_video_path_playing = IdlePath

\* C28: if from some point on the loop keeps running, no Inserted event of a
\* mapped tag is dequeued and no open fails, then from some point on the
\* idle video is the loaded video, the target is idle, no tag is active and
\* every frame shown is a frame of the idle video, and the idle video is
\* loaded again and again; and every read that gives no frame, of the idle
\* video too, leaves the idle video as the target with a load due in the
\* next iteration.
C28_ReturnsToIdle ==
  /\ (<>[]NoSelectionAndOpens) => (<>[]OnIdleVideo /\ []<>IdleJustLoaded)
  /\ [][(pc = "read" /\ pc' = "events" /\ ~ShowsFrame)
        => (/\ target_video_path' = IdlePath /\ target_is_idle'
            /\ active_tag_id' = None
            /\ NeedsLoad')]_vars

\* C28 witness: an unmapped tag was dequeued right after a content video
\* ended, and the idle video has been loaded all the same.
C28_Witness ==
  /\ IdleJustLoaded /\ prev_end = "content_eos"
  /\ Inserted(event) /\ ~Mapped(event)
  /\ target_is_idle /\ active_tag_id = None

\* Line 479, for a file reporting m.
ValidProps(m) == get_video_properties(m).fps > 0 /\ m.dims_ok
\* The step loads a content video (target_is_idle false) successfully.
ContentLoaded == pc = "load" /\ load_result' = "opened" /\ ~target_is_idle

\* C29: a successful load of a content video with valid properties starts
\* the soundtrack: with the mixer available either the channel plays a new
\* instance at volume 0 with the state FADE_IN and the duration of the video,
\* or nothing plays and the state is NONE, and both can happen wherever the
\* open of a content video can also fail; with the
\* mixer unavailable, or with invalid properties, nothing plays and the state
\* is NONE.  The state becomes FADE_IN and the channel becomes busy in such a
\* load only, so once per segment; an instance that was playing does not
\* outlive the load; and an update of a segment whose state is NONE leaves
\* the state and the channel as they are.
C29_LoadStartsSoundtrackOnce ==
  [][/\ ContentLoaded
        => /\ IF audio_fade_state' = "FADE_IN"
              THEN /\ mixer_ok
                   /\ soundtrack_channel' = [busy |-> TRUE, vol |-> Zero]
                   /\ \E m \in VideoMetas(target_video_path) :
                        /\ ValidProps(m)
                        /\ fps' = get_video_properties(m).fps
                        /\ current_video_duration_sec'
                             = <<m.total, get_video_properties(m).fps>>
              ELSE /\ audio_fade_state' = "NONE"
                   /\ ~soundtrack_channel'.busy
     /\ (pc = "load" /\ pc' = "events" /\ ~target_is_idle)
        => \A m \in VideoMetas(target_video_path) :
                (ValidProps(m) /\ mixer_ok)
                => /\ ENABLED (/\ LoadStep /\ audio_fade_state' = "FADE_IN"
                               /\ current_video_duration_sec'
                                    = <<m.total, get_video_properties(m).fps>>)
                   /\ ENABLED (/\ LoadStep /\ load_result' = "opened"
                               /\ audio_fade_state' = "NONE"
                               /\ current_video_duration_sec'
                                    = <<m.total, get_video_properties(m).fps>>)
     /\ (audio_fade_state' = "FADE_IN" /\ audio_fade_state # "FADE_IN")
        => ContentLoaded
     /\ (soundtrack_channel'.busy /\ ~soundtrack_channel.busy) => ContentLoaded
     /\ (ShowsFrame /\ audio_fade_state = "NONE")
        => /\ audio_fade_state' = "NONE"
           /\ soundtrack_channel' = soundtrack_channel]_vars

\* C29 witness: a content video was loaded over a video that was still
\* playing, and its soundtrack has started at volume 0 in FADE_IN.
C29_Witness ==
  /\ pc = "read" /\ load_result = "opened" /\ prev_end = "none"
  /\ SelectsVideo(event) /\ active_tag_id # None
  /\ audio_fade_state = "FADE_IN"
  /\ soundtrack_channel = [busy |-> TRUE, vol |-> Zero]
  /\ current_video_duration_sec[1] > 0

\* The order of the fade states within a segment.
AudioRank(st) ==
  CASE st = "NONE" -> 0 [] st = "FADE_IN" -> 1 [] st = "PLAYING" -> 2
    [] st = "FADE_OUT" -> 3
\* The step is an update of the soundtrack that finds the channel playing.
BusyUpdate ==
  ShowsFrame /\ ~target_is_idle /\ fps > 0 /\ ChannelPlaying(soundtrack_channel)

\* C30: an update that finds the channel playing never moves the state
\* backward in the order FADE_IN, PLAYING, FADE_OUT and never to NONE, and
\* leaves NONE at NONE; an update in FADE_OUT stays in FADE_OUT, and once
\* the elapsed time has reached the duration of the video it writes volume
\* 0; the state leaves FADE_OUT only by the end of the video or a read
\* error, a stop, a new start (all in a load or at shutdown), or an update
\* that finds the channel not playing.  The same holds of the update for
\* every state, elapsed time, frame rate, duration and volume it can be
\* called with.
C30_FadeStateOnlyForward ==
  [][/\ BusyUpdate
        => /\ AudioRank(audio_fade_state') >= AudioRank(audio_fade_state)
           /\ audio_fade_state = "NONE" => audio_fade_state' = "NONE"
           /\ audio_fade_state = "FADE_OUT" => audio_fade_state' = "FADE_OUT"
           /\ (/\ audio_fade_state' = "FADE_OUT"
               /\ current_playback_frame_count' * current_video_duration_sec[2]
                    >= current_video_duration_sec[1] * fps)
              => soundtrack_channel'.vol = Zero
           /\ soundtrack_channel'.busy
     /\ (audio_fade_state = "FADE_OUT" /\ audio_fade_state' # "FADE_OUT")
        => /\ audio_fade_state' \in {"NONE", "FADE_IN"}
           /\ \/ pc = "load" /\ load_result' = "opened"
              \/ pc = "read" /\ pc' = "events" /\ ~ShowsFrame
              \/ pc = "stop_audio"
              \/ ShowsFrame /\ ~ChannelPlaying(soundtrack_channel)
     /\ (pc = "start" /\ mixer_ok)
        => \A st \in AudioStates, n \in UpdateCounts, f \in UpdateFps,
              d \in UpdateDurations, v \in UpdateVolumes :
             LET r == manage_soundtrack_volume(n, f, [busy |-> TRUE, vol |-> v],
                                               st, d)
             IN /\ AudioRank(r.state) >= AudioRank(st)
                /\ st = "NONE" => r.state = "NONE"
                /\ AudioRank(r.state) <= AudioRank(st) + 2
                /\ (r.state = "FADE_OUT" /\ n * d[2] >= d[1] * f)
                   => r.ch.vol = Zero]_vars

\* C30 witness: the soundtrack has been held at volume 0 in FADE_OUT over at
\* least two updates past the reported end of the video, the channel still
\* playing.
C30_Witness ==
  /\ pc = "events" /\ rendered # NoFrame /\ rendered.pos >= 3
  /\ audio_fade_state = "FADE_OUT" /\ soundtrack_channel.busy
  /\ soundtrack_channel.vol = Zero
  /\ current_video_duration_sec[1] > 0
  /\ (rendered.count - 1) * current_video_duration_sec[2]
       > current_video_duration_sec[1] * fps

\* The fade windows overlap: twice the fade duration exceeds the duration d
\* of the video (frames, fps) at frame rate f.
Overlap(d, f) ==
  2 * FADE_DURATION_SECONDS * f * d[2] > 10 * d[1] * f
\* The volume the FADE_OUT branch leaves at elapsed time T past the start of
\* the fade-out: (duration - elapsed) / fade, and 0 from the end of the video.
OverlapVolume(T, FD, D) == IF T < D THEN Frac(D - T, FD) ELSE Zero
\* The step is an update that finds the channel playing in FADE_IN with
\* overlapping fade windows.
OverlapUpdate ==
  /\ BusyUpdate /\ audio_fade_state = "FADE_IN"
  /\ Overlap(current_video_duration_sec, fps)

\* C31 as stated: with 2 * fade > duration, the update in FADE_IN whose
\* elapsed time has reached the fade duration leaves the state at FADE_OUT
\* and the volume at the one of the FADE_OUT branch; before that the state
\* stays FADE_IN.
C31_OverlapFadesOutAtOnce ==
  [][OverlapUpdate
     => IF ElapsedAfter >= FadeScaled
        THEN /\ audio_fade_state' = "FADE_OUT"
             /\ soundtrack_channel'.vol
                  = OverlapVolume(ElapsedAfter, FadeScaled, DurationScaled)
        ELSE audio_fade_state' = "FADE_IN"]_vars

\* C31 amended: with 2 * fade > duration and the duration positive, the
\* update in FADE_IN whose elapsed time has reached the fade duration leaves
\* the state at FADE_OUT and the volume at the one of the FADE_OUT branch,
\* (duration - elapsed) / fade or 0 from the end of the video, never the
\* target volume the FADE_IN branch wrote; with a duration of 0 (no frame
\* count reported) that update leaves the state at PLAYING and the volume at
\* the target; before the elapsed time reaches the fade duration the state
\* stays FADE_IN.  The same holds of the update for every elapsed time, frame
\* rate, duration and volume it can be called with.
C31_OverlapFadesOutAtOnceWhenDurationPositive ==
  [][/\ OverlapUpdate
        => IF ElapsedAfter >= FadeScaled
           THEN IF DurationScaled > 0
                THEN /\ audio_fade_state' = "FADE_OUT"
                     /\ soundtrack_channel'.vol
                          = OverlapVolume(ElapsedAfter, FadeScaled, DurationScaled)
                     /\ soundtrack_channel'.vol # One
                ELSE /\ audio_fade_state' = "PLAYING"
                     /\ soundtrack_channel'.vol = One
           ELSE audio_fade_state' = "FADE_IN"
     /\ (pc = "start" /\ mixer_ok)
        => \A n \in UpdateCounts, f \in UpdateFps, d \in UpdateDurations,
              v \in UpdateVolumes :
             LET r == manage_soundtrack_volume(n, f, [busy |-> TRUE, vol |-> v],
                                               "FADE_IN", d)
                 T  == 10 * n * d[2]
                 FD == FADE_DURATION_SECONDS * f * d[2]
                 D  == 10 * d[1] * f
             IN Overlap(d, f)
                => IF T >= FD
                   THEN IF D > 0
                        THEN /\ r.state = "FADE_OUT"
                             /\ r.ch.vol = OverlapVolume(T, FD, D)
                        ELSE r.state = "PLAYING" /\ r.ch.vol = One
                   ELSE r.state = "FADE_IN"]_vars

\* C31 witness: the update at which the elapsed time first reached the fade
\* duration has left the soundtrack of a video shorter than twice the fade
\* in FADE_OUT, at a volume below the target.
C31_Witness ==
  /\ pc = "events" /\ rendered # NoFrame /\ active_tag_id # None
  /\ rendered.count = current_playback_frame_count
  /\ audio_fade_state = "FADE_OUT" /\ soundtrack_channel.busy
  /\ current_video_duration_sec[1] > 0
  /\ Overlap(current_video_duration_sec, fps)
  /\ 10 * current_playback_frame_count >= FADE_DURATION_SECONDS * fps
  /\ 10 * (current_playback_frame_count - 1) < FADE_DURATION_SECONDS * fps
  /\ Less(soundtrack_channel.vol, One)

\* The frame rate of a newly opened file reporting m: the reported rate, or
\* the default when none is reported.
ReportedOrDefaultFps(m) == IF m.fps = 0 THEN DefaultFps ELSE m.fps
\* tenths / 10 rounded to the nearest integer, a half to the even one, as
\* round() does.
RoundTenths(tenths) ==
  LET q == tenths \div 10
      r == tenths % 10
  IN IF r > 5 \/ (r = 5 /\ q % 2 = 1) THEN q + 1 ELSE q
\* The step is a successful load.
LoadSucceeds == pc = "load" /\ load_result' = "opened"

\* C32 as stated: a successful load sets the fade-in threshold to
\* round(fade duration * frame rate of the new video), 25 for a rate of 0.
C32_ThresholdRounded ==
  [][LoadSucceeds
     => \A m \in VideoMetas(target_video_path) :
          fade_in_frames'
            = RoundTenths(FADE_DURATION_SECONDS * ReportedOrDefaultFps(m))]_vars

\* C32 amended: a successful load sets the fade-in threshold to
\* fade duration * frame rate of the new video (25 for a reported rate of 0)
\* with the fraction cut off, whatever the threshold and the frame rate were
\* before, also when the new video's dimensions are unusable and the frame
\* rate for pacing stays the previous one.
C32_ThresholdTruncated ==
  [][LoadSucceeds
     => \A m \in VideoMetas(target_video_path) :
          /\ 10 * fade_in_frames'
               <= FADE_DURATION_SECONDS * ReportedOrDefaultFps(m)
          /\ 10 * (fade_in_frames' + 1)
               > FADE_DURATION_SECONDS * ReportedOrDefaultFps(m)]_vars

\* C32 witness: the second content video (1 fps) has been loaded with
\* unusable dimensions: the frame rate is still the previous video's, the
\* threshold is that of 1.5 s at 1 fps.
C32_Witness ==
  /\ pc = "read" /\ load_result = "opened"
  /\ current_video_path_playing = PathB
  /\ FADE_DURATION_SECONDS = 15
  /\ fps # 1 /\ fade_in_frames = 1

\* C33: once the stop event is set, the poll of a running reader thread ends
\* its read loop, and the thread ends by its poll only after the stop event
\* was set; the wait of the main thread is bounded: the finally block can go
\* on whatever the reader thread does, and once entered it runs to the end
\* of main(), with the capture released, no video handle open, the
\* soundtrack stopped and the window destroyed, also when the reader thread
\* never ends.
C33_ShutdownCompletesWithoutReader ==
  /\ []((stop_rfid_thread /\ rfid_thread = "running" /\ pc # "exited")
        => ENABLED (tick /\ rfid_thread' = "stopped"))
  /\ [][(rfid_thread' = "stopped" /\ rfid_thread # "stopped")
        => (rfid_thread = "running" /\ stop_rfid_thread)]_vars
  /\ [](pc = "finally" => ENABLED ReleaseCapture)
  /\ [][(pc = "destroy" /\ pc' = "exited")
        => /\ cap' # "opened" /\ open_handles' = 0
           /\ ~soundtrack_channel'.busy /\ audio_fade_state' = "NONE"
           /\ ~window_open']_vars
  /\ (pc = "finally") ~> (pc = "exited")

\* C33 witness: main() has returned with everything released while the
\* reader thread, signalled to stop, is still in its read loop.
C33_Witness ==
  /\ pc = "exited" /\ stop_rfid_thread /\ rfid_thread = "running"
  /\ cap = "closed" /\ open_handles = 0
  /\ ~soundtrack_channel.busy /\ ~window_open

\* Time into the fade-out period at the update of the step, scaled as
\* ElapsedAfter.
IntoFadeOutAfter == ElapsedAfter - (DurationScaled - FadeScaled)

\* C34: the frame rate is positive in every state, and after a successful
\* load it is the rate the file reports, 25 for a reported 0, or the previous
\* rate when the properties are invalid; the stored duration has a positive
\* denominator; a frame is blended (count <= fade_in_frames) only with
\* fade_in_frames >= 1 and its weight is a proper fraction; the update
\* divides by the fade duration (in FADE_IN before the fade has run, in
\* FADE_OUT within the fade-out period) only when it is positive, and leaves
\* a proper fraction as volume; and start_soundtrack_for_video takes the
\* duration as 0 for a frame rate that is not positive.
C34_NoDivisionByZero ==
  [][/\ fps > 0 /\ fps' > 0
     /\ current_video_duration_sec[2] > 0 /\ current_video_duration_sec'[2] > 0
     /\ LoadSucceeds
        => \E m \in VideoMetas(target_video_path) :
             fps' = IF m.dims_ok THEN ReportedOrDefaultFps(m) ELSE fps
     /\ ShowsFrame
        => /\ current_playback_frame_count' >= 1
           /\ current_playback_frame_count' <= fade_in_frames
                => fade_in_frames >= 1
           /\ rendered'.alpha # DivError /\ rendered'.alpha[2] > 0
     /\ BusyUpdate
        => /\ (audio_fade_state = "FADE_IN" /\ ElapsedAfter < FadeScaled)
                => FADE_DURATION_SECONDS > 0
           /\ (/\ audio_fade_state' = "FADE_OUT"
               /\ IntoFadeOutAfter >= 0 /\ IntoFadeOutAfter < FadeScaled)
                => FADE_DURATION_SECONDS > 0
           /\ soundtrack_channel'.vol[2] > 0
     /\ (pc = "start" /\ mixer_ok)
        => \A t \in 0 .. MaxFrames, f \in {-1, 0}, ok \in BOOLEAN :
             start_soundtrack_for_video(t, f, ok, Silent, <<t, 1>>).dur = Zero
    ]_vars

\* C34 witness: with a fade duration of 0 a frame of a content video has
\* been shown unblended and its soundtrack updated, the channel playing at
\* the target volume or faded out.
C34_Witness ==
  /\ pc = "events" /\ rendered # NoFrame /\ active_tag_id # None
  /\ FADE_DURATION_SECONDS = 0 /\ fade_in_frames = 0
  /\ rendered.alpha = One
  /\ soundtrack_channel.busy
  /\ audio_fade_state \in {"PLAYING", "FADE_OUT"}
  /\ soundtrack_channel.vol \in {Zero, One}

C36_IdleFlagAgreesWithPath ==
  /\ target_is_idle <=> target_video_path = IdlePath
  /\ (pc = "read" /\ load_result = "opened"
      /\ current_video_path_playing = IdlePath)
     => audio_fade_state = "NONE" /\ ~soundtrack_channel.busy

\* The step takes the head of the queue into the event of the iteration.
Dequeue ==
  /\ pc = "events" /\ rfid_event_queue # <<>>
  /\ rfid_event_queue' = Tail(rfid_event_queue)
  /\ event' = Head(rfid_event_queue)
\* The event section of this iteration has just taken an event from the queue.
JustDequeued == pc = "load" /\ event # NoEvent
\* The step puts an event at the tail of the queue.
Enqueue ==
  /\ Len(rfid_event_queue') = Len(rfid_event_queue) + 1
  /\ SubSeq(rfid_event_queue', 1, Len(rfid_event_queue)) = rfid_event_queue

\* C37 as stated: the queue changes only by an event put at its tail or by
\* the main loop taking its head, so that events are dequeued once and in
\* the order they were enqueued; and if the main loop keeps iterating, then
\* whenever an event is queued a dequeue follows: no event stays in the
\* queue forever.
C37_EveryEventDequeuedInOrder ==
  /\ [][rfid_event_queue' # rfid_event_queue => (Enqueue \/ Dequeue)]_vars
  /\ ([]<>(pc = "events"))
     => ((rfid_event_queue # <<>> /\ ~JustDequeued) ~> JustDequeued)

====
